---- MODULE Spec2Model ----
(***************************************************************************)
(* Model of ExcelToDB.py: the header synthesis, the schema reconciliation, *)
(* the numeric rounding policies, the ERF column merge and the per-sheet   *)
(* conversion loop of excel_to_sqlite.                                     *)
(*                                                                         *)
(* A Python str is a sequence of one-character strings, so that strip(),   *)
(* zip() and the "_<i>" suffix are computed character by character.  A     *)
(* missing cell (pandas NaN) is the one-element sequence NaN, which is no   *)
(* sequence of characters.                                                 *)
(***************************************************************************)
EXTENDS Integers, Sequences, FiniteSets, TLC

VARIABLES
    \* set_specific_headers(df, sheetname)
    sheetname,      \* the worksheet name passed in
    first_row,      \* df.iloc[0], before ffill
    second_row,     \* df.iloc[1], before ffill
    columns,        \* df.columns of the returned frame
    hpc,            \* "call" before the function ran, "return" after
    \* compare_arrays_with_alert(temp, data)
    temp,           \* the reference column names
    data,           \* the candidate column names
    message,        \* "OK" or "HAVE ERROR"
    misspelled,
    true_extra,
    missing,
    cpc,            \* "call" / "return"
    \* the rounding policies of convert_data_types, on one cell
    x,              \* the cell after pd.to_numeric, in thousandths
    x_isna,         \* TRUE when pd.to_numeric coerced the cell to NaN
    fe_mul,         \* sign of the binary floating-point error of x * 100
    fe_sub,         \* sign of the error of round(x, 3) - rounded
    cell,           \* the converted cell: a str, or None
    xpc,            \* "call", then the policy that was applied
    \* add_erf_type(df)
    df,             \* the frame passed in: <<column name, value>> pairs
    erf_df,         \* the frame returned
    epc,            \* "call" / "return"
    \* main() and excel_to_sqlite(excel_file)
    has_argv,       \* len(sys.argv) >= 2
    headfile_exists,\* os.path.exists(headfile)
    excel_exists,   \* os.path.exists(excel_file)
    header_book,    \* header.xlsx: sheet name and first row of each sheet
    xls,            \* the workbook: sheet name and two header rows of each sheet
    pipeTallyColumns,
    nomThickColumns,
    check_List_Pipe,    \* "unbound" until assigned, then "True"
    check_List_Nominal,
    i,              \* sheets whose loop body ran to its end
    read_sheets,    \* sheet names passed to pd.read_excel, in order
    tables,         \* the tables of the database: name and columns
    conn,           \* "none", "open", "closed"
    committed,      \* conn.commit() was called
    stdout,         \* the lines printed, in order
    ret,            \* what excel_to_sqlite returned: "none", "True", "False"
    rpc             \* where the run is

hvars == <<sheetname, first_row, second_row, columns, hpc>>

cvars == <<temp, data, message, misspelled, true_extra, missing, cpc>>

xvars == <<x, x_isna, fe_mul, fe_sub, cell, xpc>>

evars == <<df, erf_df, epc>>

rvars == <<has_argv, headfile_exists, excel_exists, header_book, xls,
           pipeTallyColumns, nomThickColumns, check_List_Pipe,
           check_List_Nominal, i, read_sheets, tables, conn, committed,
           stdout, ret, rpc>>

vars == <<hvars, cvars, xvars, evars, rvars>>

\* Each function is checked under a specification of its own; the variables
\* of the functions that specification does not call stay idle.
IdleHeaders ==
    /\ sheetname = ""
    /\ first_row = <<>>
    /\ second_row = <<>>
    /\ columns = <<>>
    /\ hpc = "idle"

IdleCompare ==
    /\ temp = <<>>
    /\ data = <<>>
    /\ message = ""
    /\ misspelled = {}
    /\ true_extra = {}
    /\ missing = {}
    /\ cpc = "idle"

IdleRound ==
    /\ x = 0
    /\ x_isna = FALSE
    /\ fe_mul = 0
    /\ fe_sub = 0
    /\ cell = <<>>
    /\ xpc = "idle"

IdleErf ==
    /\ df = <<>>
    /\ erf_df = <<>>
    /\ epc = "idle"

IdleRun ==
    /\ has_argv = FALSE
    /\ headfile_exists = FALSE
    /\ excel_exists = FALSE
    /\ header_book = <<>>
    /\ xls = <<>>
    /\ pipeTallyColumns = <<>>
    /\ nomThickColumns = <<>>
    /\ check_List_Pipe = "unbound"
    /\ check_List_Nominal = "unbound"
    /\ i = 0
    /\ read_sheets = <<>>
    /\ tables = {}
    /\ conn = "none"
    /\ committed = FALSE
    /\ stdout = <<>>
    /\ ret = "none"
    /\ rpc = "idle"

----------------------------------------------------------------------------
\* Bounds of the model

\* widest header block drawn as an input of set_specific_headers
MaxWidth == 3

\* most names in the reference list and in the candidate list drawn as inputs
\* of compare_arrays_with_alert
MaxNames == 2

\* largest cell value, in thousandths, drawn as an input of the rounding
\* policies
MaxMilli == 3999

\* most columns of a frame drawn as an input of add_erf_type
MaxColumns == 4

\* most worksheets of the workbook given to excel_to_sqlite
MaxSheets == 3

----------------------------------------------------------------------------
\* Python values

NaN == <<"NaN">>

notna(c) == c # NaN

Max(S) == CHOOSE m \in S : \A n \in S : n <= m

Min2(a, b) == IF a <= b THEN a ELSE b

Abs(a) == IF a < 0 THEN 0 - a ELSE a

Range(s) == {s[k] : k \in 1..Len(s)}

InSeq(e, s) == \E k \in 1..Len(s) : s[k] = e

NoDuplicates(s) == \A a, b \in 1..Len(s) : a # b => s[a] # s[b]

Digits == <<"0", "1", "2", "3", "4", "5", "6", "7", "8", "9">>

\* str(n) of a non-negative int
RECURSIVE str(_)
str(n) == IF n < 10 THEN <<Digits[n + 1]>>
          ELSE str(n \div 10) \o <<Digits[(n % 10) + 1]>>

RECURSIVE lstrip(_)
lstrip(s) == IF s # <<>> /\ Head(s) = " " THEN lstrip(Tail(s)) ELSE s

RECURSIVE rstrip(_)
rstrip(s) == IF s # <<>> /\ s[Len(s)] = " "
             THEN rstrip(SubSeq(s, 1, Len(s) - 1)) ELSE s

\* str.strip()
strip(s) == rstrip(lstrip(s))

\* Series.ffill(): a NaN takes the nearest non-NaN value to its left
ffill(row) ==
    [k \in 1..Len(row) |->
        LET filled == {j \in 1..k : notna(row[j])}
        IN  IF filled = {} THEN NaN ELSE row[Max(filled)]]

----------------------------------------------------------------------------
\* Names used by the program

Comments == <<"C", "o", "m", "m", "e", "n", "t", "s">>

Unnamed == <<"U", "n", "n", "a", "m", "e", "d">>

PipeTallySheet == "List of Pipe Tally"

NominalSheet == "List of Nominal Wall Thickness"

----------------------------------------------------------------------------
\* set_specific_headers

\* the header of column idx (0-based) chosen from the two forward-filled rows
select_header(first, second, idx) ==
    IF notna(second[idx + 1]) /\ strip(second[idx + 1]) # <<>>
    THEN strip(second[idx + 1])
    ELSE IF notna(first[idx + 1]) /\ strip(first[idx + 1]) # <<>>
         THEN strip(first[idx + 1])
         ELSE Unnamed \o <<"_">> \o str(idx)

combine_headers(first, second) ==
    [k \in 1..Len(second) |-> select_header(first, second, k - 1)]

force_comments_never(headers, name) == headers

\* "Forcefully assign if missing"
force_comments(headers, name) ==
    IF name # NominalSheet /\ ~InSeq(Comments, headers) /\ Len(headers) > 1
    THEN [headers EXCEPT ![Len(headers)] = Comments]
    ELSE headers

\* unique_headers after the loop has seen the first n headers
RECURSIVE unique_headers(_, _)
unique_headers(headers, n) ==
    IF n = 0 THEN <<>>
    ELSE LET seen == unique_headers(headers, n - 1)
             header_str == headers[n]
         IN  IF InSeq(header_str, seen)
             THEN Append(seen, header_str \o <<"_">> \o str(n - 1))
             ELSE Append(seen, header_str)

set_specific_headers(first, second, name) ==
    LET headers == force_comments(combine_headers(ffill(first), ffill(second)), name)
    IN  unique_headers(headers, Len(headers))

\* cells of the first and of the second header row: text or NaN (strip() of a
\* cell that is a number raises AttributeError)
FirstCells == {NaN, <<"A">>, <<" ", "B">>}

SecondCells == {NaN, <<"A">>, <<"A", "_", "2">>, Comments, <<" ">>}

SheetNames == {PipeTallySheet, NominalSheet, "Summary"}

InitHeaders ==
    /\ IdleCompare /\ IdleRound /\ IdleErf /\ IdleRun
    /\ sheetname \in SheetNames
    /\ \E w \in 1..MaxWidth :
          /\ first_row \in [1..w -> FirstCells]
          /\ second_row \in [1..w -> SecondCells]
    /\ columns = <<>>
    /\ hpc = "call"

SetSpecificHeaders ==
    /\ hpc = "call"
    /\ columns' = set_specific_headers(first_row, second_row, sheetname)
    /\ hpc' = "return"
    /\ UNCHANGED <<sheetname, first_row, second_row>>
    /\ UNCHANGED <<cvars, xvars, evars, rvars>>

NextHeaders == SetSpecificHeaders

SpecHeaders == InitHeaders /\ [][NextHeaders]_vars

\* the headers selected from the block, before the forced name and the
\* uniqueness pass
SelectedHeaders == combine_headers(ffill(first_row), ffill(second_row))

\* C1: the schema returned by set_specific_headers has no duplicate names
\* and as many names as the header rows have columns.
C1_UniqueSameWidth ==
    hpc = "return" =>
        /\ Len(columns) = Len(second_row)
        /\ NoDuplicates(columns)

\* C8 as stated: on a sheet other than the wall-thickness sheet, whatever the
\* width, when no selected header is Comments the last name is Comments.
C8_AnyWidth ==
    (hpc = "return" /\ sheetname # NominalSheet
        /\ ~InSeq(Comments, SelectedHeaders))
    => columns[Len(columns)] = Comments

\* C8 amended: the same, for header blocks of two or more columns; a
\* one-column block keeps its own header.
C8_ForcedComments ==
    /\ (hpc = "return" /\ sheetname # NominalSheet
          /\ ~InSeq(Comments, SelectedHeaders) /\ Len(second_row) > 1)
       => columns[Len(columns)] = Comments
    /\ (hpc = "return" /\ sheetname # NominalSheet
          /\ ~InSeq(Comments, SelectedHeaders) /\ Len(second_row) = 1)
       => columns = SelectedHeaders

C8_Witness ==
    /\ hpc = "return"
    /\ sheetname = PipeTallySheet
    /\ Len(second_row) = 3
    /\ SelectedHeaders[3] = <<"A">>
    /\ ~InSeq(Comments, SelectedHeaders)
    /\ columns[3] = Comments

----------------------------------------------------------------------------
\* compare_arrays_with_alert

\* sum((c1 != c2) for c1, c2 in zip(word, other)): zip stops at the shorter
RECURSIVE mismatches(_, _)
mismatches(word, other) ==
    IF word = <<>> \/ other = <<>> THEN 0
    ELSE (IF Head(word) # Head(other) THEN 1 ELSE 0)
         + mismatches(Tail(word), Tail(other))

near_no_length_check(word, other) == mismatches(word, other) <= 2

\* the condition inside any(...) of both loops
near(word, other) ==
    mismatches(word, other) <= 2 /\ Abs(Len(word) - Len(other)) <= 2

\* the names of temp the second loop adds to missing
truly_missing(t, d) ==
    LET temp_set == Range(t)
        data_set == Range(d)
        potentially_missing == temp_set \ data_set
    IN  {temp_word \in potentially_missing :
            ~ \E data_word \in data_set : near(temp_word, data_word)}

\* misspelled, true_extra and missing are given as sets: the order of the
\* returned lists is the iteration order of a Python set.
compare_arrays_with_alert(t, d) ==
    LET temp_set == Range(t)
        data_set == Range(d)
        extra_in_data == data_set \ temp_set
        mis == {word \in extra_in_data :
                    \E temp_word \in temp_set : near(word, temp_word)}
        ext == extra_in_data \ mis
        mss == truly_missing(t, d)
    IN  [message |-> IF Cardinality(mss) = 0 /\ Cardinality(mis) = 0
                        /\ Cardinality(ext) = 0
                     THEN "OK" ELSE "HAVE ERROR",
         misspelled |-> mis,
         true_extra |-> ext,
         missing |-> mss]

\* column names the inputs are drawn from: one and two characters apart,
\* three apart, two and three characters longer
NamePool ==
    { <<"a", "b", "c">>, <<"a", "b", "d">>, <<"x", "y", "z">>, <<"x", "y", "c">>,
      <<"a", "b", "c", "d", "e">>, <<"a", "b", "c", "d", "e", "f">> }

NameLists == UNION {[1..n -> NamePool] : n \in 0..MaxNames}

InitCompare ==
    /\ IdleHeaders /\ IdleRound /\ IdleErf /\ IdleRun
    /\ temp \in {t \in NameLists : NoDuplicates(t)}
    /\ data \in NameLists
    /\ message = ""
    /\ misspelled = {}
    /\ true_extra = {}
    /\ missing = {}
    /\ cpc = "call"

CompareArraysWithAlert ==
    /\ cpc = "call"
    /\ LET r == compare_arrays_with_alert(temp, data)
       IN  /\ message' = r.message
           /\ misspelled' = r.misspelled
           /\ true_extra' = r.true_extra
           /\ missing' = r.missing
    /\ cpc' = "return"
    /\ UNCHANGED <<temp, data>>
    /\ UNCHANGED <<hvars, xvars, evars, rvars>>

NextCompare == CompareArraysWithAlert

SpecCompare == InitCompare /\ [][NextCompare]_vars

\* near-match as the claim words it: at most 2 differing positions over the
\* length of the shorter name, and lengths at most 2 apart
NearMatch(a, b) ==
    /\ Cardinality({k \in 1..Min2(Len(a), Len(b)) : a[k] # b[k]}) <= 2
    /\ Len(a) - Len(b) \in -2..2

\* C2: misspelled is the candidate-only names that near-match a reference
\* name, true_extra the other candidate-only names, missing the
\* reference-only names that near-match no candidate name; the status is OK
\* exactly when all three are empty; the three are pairwise disjoint.
C2_Classification ==
    cpc = "return" =>
        LET ref == Range(temp)
            cand == Range(data)
        IN  /\ misspelled = {n \in cand \ ref : \E r \in ref : NearMatch(n, r)}
            /\ true_extra = {n \in cand \ ref : \A r \in ref : ~NearMatch(n, r)}
            /\ missing = {r \in ref \ cand : \A n \in cand : ~NearMatch(r, n)}
            /\ message \in {"OK", "HAVE ERROR"}
            /\ (message = "OK") <=>
                   (misspelled = {} /\ true_extra = {} /\ missing = {})
            /\ misspelled \cap true_extra = {}
            /\ misspelled \cap missing = {}
            /\ true_extra \cap missing = {}

\* a call in which each of the three classes is non-empty: "abd" is a
\* misspelling of "abc", "abcdef" is extra, "xyz" is missing
C2_Witness ==
    /\ cpc = "return"
    /\ temp = << <<"a", "b", "c">>, <<"x", "y", "z">> >>
    /\ data = << <<"a", "b", "d">>, <<"a", "b", "c", "d", "e", "f">> >>
    /\ message = "HAVE ERROR"
    /\ misspelled = { <<"a", "b", "d">> }
    /\ true_extra = { <<"a", "b", "c", "d", "e", "f">> }
    /\ missing = { <<"x", "y", "z">> }

\* C10: a comparison that returns OK has every reference name among the
\* candidate names.
C10_OKHasEveryReferenceName ==
    (cpc = "return" /\ message = "OK") => Range(temp) \subseteq Range(data)

----------------------------------------------------------------------------
\* The rounding policies of convert_data_types.  A cell is x / 1000: the
\* exact decimal value the float stands for.

\* str(int(n)), also of a negative n
str_int(n) == IF n < 0 THEN <<"-">> \o str(0 - n) ELSE str(n)

None == <<"None">>

\* Python's round(num / den) to an integer, den > 0: a tie goes to the even
\* neighbour.
py_round(num, den) ==
    LET q == num \div den
        r == num % den
    IN  IF 2 * r < den THEN q
        ELSE IF 2 * r > den THEN q + 1
        ELSE IF q % 2 = 0 THEN q ELSE q + 1

\* custom_round(x) of a cell that is not NaN.  n + 0.5 is exact in binary
\* floating point, so round() sees the tie.
custom_round(milli) == py_round(milli, 1000)

\* custom_round_two_decimal(x) of a cell that is not NaN, in hundredths.
\* x * 100 and the subtraction are floating-point operations: where the exact
\* result sits on the boundary the comparison tests, the sign of the
\* floating-point error (emul, esub) decides, and both signs occur.
custom_round_two_decimal(milli, emul, esub) ==
    LET q == milli \div 10
        r == milli % 10
        \* round(x * 100)
        hundred == IF r = 5 /\ emul < 0 THEN q
                   ELSE IF r = 5 /\ emul > 0 THEN q + 1
                   ELSE py_round(milli, 10)
        \* round(x, 3) - rounded, in thousandths
        diff == milli - 10 * hundred
        corrected == IF diff > 1 \/ (diff = 1 /\ esub >= 0)
                     THEN hundred + 1 ELSE hundred
    IN  corrected

\* f"{v:.2f}" of v = hundredths / 100 >= 0
format_2f(hundredths) ==
    str(hundredths \div 100) \o <<".">>
        \o <<Digits[((hundredths \div 10) % 10) + 1]>>
        \o <<Digits[(hundredths % 10) + 1]>>

InitRound ==
    /\ IdleHeaders /\ IdleCompare /\ IdleErf /\ IdleRun
    /\ x \in 0..MaxMilli
    /\ x_isna \in BOOLEAN
    /\ fe_mul \in {-1, 0, 1}
    /\ fe_sub \in {-1, 0, 1}
    /\ cell = <<>>
    /\ xpc = "call"

\* a cell of "Length [mm]" or "Width [mm]"
ConvertRoundToInteger ==
    /\ xpc = "call"
    /\ cell' = IF x_isna THEN None ELSE str_int(custom_round(x))
    /\ xpc' = "integer"
    /\ UNCHANGED <<x, x_isna, fe_mul, fe_sub>>
    /\ UNCHANGED <<hvars, cvars, evars, rvars>>

\* a cell of "Nominal Internal diameter [mm]" or "Max. depth [mm]"
ConvertTwoDecimal ==
    /\ xpc = "call"
    /\ cell' = IF x_isna THEN None
               ELSE format_2f(custom_round_two_decimal(x, fe_mul, fe_sub))
    /\ xpc' = "two_decimal"
    /\ UNCHANGED <<x, x_isna, fe_mul, fe_sub>>
    /\ UNCHANGED <<hvars, cvars, evars, rvars>>

NextRound == ConvertRoundToInteger \/ ConvertTwoDecimal

SpecRound == InitRound /\ [][NextRound]_vars

\* C5: a round-to-integer cell n + 0.5 becomes the string of n + 1, and a
\* cell strictly between n and n + 0.5 the string of n.
C5_HalfUp ==
    (xpc = "integer" /\ ~x_isna) =>
        LET n == x \div 1000
            frac == x % 1000
        IN  /\ frac = 500 => cell = str(n + 1)
            /\ (0 < frac /\ frac < 500) => cell = str(n)

\* C6: a two-decimal cell with at most three decimals goes up to the next
\* hundredth exactly when its third decimal digit is 5 or more, and stays at
\* the lower hundredth when that digit is 0 to 4.
C6_HalfUpTwoDecimal ==
    (xpc = "two_decimal" /\ ~x_isna) =>
        LET lower == x \div 10
            third == x % 10
        IN  cell = format_2f(IF third >= 5 THEN lower + 1 ELSE lower)

----------------------------------------------------------------------------
\* add_erf_type.  A frame is the sequence of its columns, each the pair
\* <<name, value>> of the column's name and its value in one data row.  The
\* column names of a frame are distinct.

ERF_Modified ==
    <<"E", "R", "F", " ", "(", "M", "o", "d", "i", "f", "i", "e", "d", ")">>

ERF_metal_loss ==
    <<"E", "R", "F", " ", "(", "m", "e", "t", "a", "l", " ", "l", "o", "s", "s", ")">>

ERF == <<"E", "R", "F">>

isNormalERF == <<"i", "s", "N", "o", "r", "m", "a", "l", "E", "R", "F">>

col_names(frame) == [k \in 1..Len(frame) |-> frame[k][1]]

has_col(frame, name) == InSeq(name, col_names(frame))

\* df.columns.get_loc(name): the 0-based position of the column
get_loc(frame, name) == (CHOOSE k \in 1..Len(frame) : frame[k][1] = name) - 1

\* row[name]
value_of(frame, name) == frame[get_loc(frame, name) + 1][2]

\* df[name] = value: in place when the column exists, else a new last column
setitem(frame, name, value) ==
    IF has_col(frame, name)
    THEN [frame EXCEPT ![get_loc(frame, name) + 1] = <<name, value>>]
    ELSE Append(frame, <<name, value>>)

\* df.pop(name) and df.drop(columns=names): the frame without the columns
drop(frame, names) == SelectSeq(frame, LAMBDA c : c[1] \notin names)

insert_appends(frame, loc, name, value) == Append(frame, <<name, value>>)

\* df.insert(loc, name, value)
insert(frame, loc, name, value) ==
    SubSeq(frame, 1, loc) \o << <<name, value>> >> \o SubSeq(frame, loc + 1, Len(frame))

notnull(v) == v # "None"

\* the three merging branches share these steps; source is the column whose
\* position is taken, merged the value of the new ERF column, flag the value
\* of isNormalERF and sources the columns dropped at the end
merge_erf(frame, source, merged, flag, sources) ==
    LET position == get_loc(frame, source)
        assigned == setitem(frame, ERF, merged)
        inserted == insert(drop(assigned, {ERF}), position, ERF, merged)
        flagged == setitem(inserted, isNormalERF, flag)
    IN  drop(flagged, sources)

add_erf_type(frame) ==
    IF has_col(frame, ERF_Modified) /\ has_col(frame, ERF_metal_loss)
    THEN merge_erf(frame, ERF_Modified,
                   IF notnull(value_of(frame, ERF_Modified))
                   THEN value_of(frame, ERF_Modified)
                   ELSE value_of(frame, ERF_metal_loss),
                   IF notnull(value_of(frame, ERF_metal_loss))
                   THEN "True" ELSE "False",
                   {ERF_Modified, ERF_metal_loss})
    ELSE IF has_col(frame, ERF_Modified)
    THEN merge_erf(frame, ERF_Modified, value_of(frame, ERF_Modified),
                   "False", {ERF_Modified})
    ELSE IF has_col(frame, ERF_metal_loss)
    THEN merge_erf(frame, ERF_metal_loss, value_of(frame, ERF_metal_loss),
                   "True", {ERF_metal_loss})
    ELSE setitem(frame, isNormalERF, "True")

\* column names the input frames are drawn from
ColumnPool ==
    {ERF_Modified, ERF_metal_loss, ERF, isNormalERF, <<"I", "D">>, Comments}

\* the data row: the two source columns hold a number or nothing
row_value(name, modified, metal) ==
    IF name = ERF_Modified THEN modified
    ELSE IF name = ERF_metal_loss THEN metal
    ELSE "v"

InitErf ==
    /\ IdleHeaders /\ IdleCompare /\ IdleRound /\ IdleRun
    /\ \E n \in 0..MaxColumns :
       \E names \in [1..n -> ColumnPool] :
       \E modified \in {"None", "0.8"} :
       \E metal \in {"None", "0.6"} :
          /\ NoDuplicates(names)
          /\ df = [k \in 1..n |-> <<names[k], row_value(names[k], modified, metal)>>]
    /\ erf_df = <<>>
    /\ epc = "call"

AddErfType ==
    /\ epc = "call"
    /\ erf_df' = add_erf_type(df)
    /\ epc' = "return"
    /\ UNCHANGED df
    /\ UNCHANGED <<hvars, cvars, xvars, rvars>>

NextErf == AddErfType

SpecErf == InitErf /\ [][NextErf]_vars

\* 1-based position of a name in a list of distinct names
PositionOf(names, name) == CHOOSE k \in 1..Len(names) : names[k] = name

Without(names, gone) == SelectSeq(names, LAMBDA c : c \notin gone)

HasSource == has_col(df, ERF_Modified) \/ has_col(df, ERF_metal_loss)

\* the source columns are gone, ERF is there once, and the columns that are
\* neither a source nor ERF nor the flag keep their relative order
ErfMergedInPlace ==
    LET given == col_names(df)
        got == col_names(erf_df)
        own == {ERF_Modified, ERF_metal_loss, ERF, isNormalERF}
    IN  /\ ~InSeq(ERF_Modified, got)
        /\ ~InSeq(ERF_metal_loss, got)
        /\ Cardinality({k \in 1..Len(got) : got[k] = ERF}) = 1
        /\ Without(got, own) = Without(given, own)

\* C7 as stated, for a frame with no ERF column of its own: ERF stands where
\* the leftmost present source column stood, the columns to its left being
\* exactly those that were left of the leftmost source column.
C7_LeftmostSource ==
    (epc = "return" /\ HasSource /\ ~has_col(df, ERF)) =>
        LET given == col_names(df)
            got == col_names(erf_df)
            leftmost == Min2(IF has_col(df, ERF_Modified)
                             THEN PositionOf(given, ERF_Modified) ELSE Len(given) + 1,
                             IF has_col(df, ERF_metal_loss)
                             THEN PositionOf(given, ERF_metal_loss) ELSE Len(given) + 1)
        IN  /\ ErfMergedInPlace
            /\ SubSeq(got, 1, PositionOf(got, ERF) - 1) = SubSeq(given, 1, leftmost - 1)

\* C7 amended: ERF stands where 'ERF (Modified)' stood, or where
\* 'ERF (metal loss)' stood when there is no 'ERF (Modified)': the columns to
\* its left are exactly those that were left of that column, other than
\* 'ERF (metal loss)' and a former 'ERF' column.
C7_AtModifiedPosition ==
    (epc = "return" /\ HasSource) =>
        LET given == col_names(df)
            got == col_names(erf_df)
            anchor == IF has_col(df, ERF_Modified)
                      THEN PositionOf(given, ERF_Modified)
                      ELSE PositionOf(given, ERF_metal_loss)
        IN  /\ ErfMergedInPlace
            /\ SubSeq(got, 1, PositionOf(got, ERF) - 1)
                   = Without(SubSeq(given, 1, anchor - 1), {ERF_metal_loss, ERF})

\* 'ERF (metal loss)' stands two columns left of 'ERF (Modified)', and the
\* column between them ends up left of ERF
C7_Witness ==
    /\ epc = "return"
    /\ col_names(df) = <<ERF_metal_loss, <<"I", "D">>, ERF_Modified, Comments>>
    /\ col_names(erf_df) = << <<"I", "D">>, ERF, Comments, isNormalERF>>

----------------------------------------------------------------------------
\* excel_to_sqlite and main

\* GetHeaderColumn(df): the first row, NaN filled with "Unnamed", made unique
GetHeaderColumn(row) ==
    LET headers == [k \in 1..Len(row) |-> IF notna(row[k]) THEN row[k] ELSE Unnamed]
    IN  unique_headers(headers, Len(headers))

\* the columns the loop over xlsHead.sheet_names leaves for a sheet name; the
\* empty list when header.xlsx has no such sheet
header_columns(book, name) ==
    IF \E k \in 1..Len(book) : book[k].name = name
    THEN GetHeaderColumn(book[CHOOSE k \in 1..Len(book) : book[k].name = name].row)
    ELSE <<>>

\* df.columns of a sheet when it reaches compare_arrays_with_alert or to_sql:
\* set_specific_headers, then for the pipe tally add_erf_type and the drop of
\* isNormalERF.  convert_data_types renames no column.
sheet_columns(sheet) ==
    LET headers == set_specific_headers(sheet.first, sheet.second, sheet.name)
        frame == [k \in 1..Len(headers) |-> <<headers[k], "v">>]
    IN  IF sheet.name = PipeTallySheet
        THEN col_names(drop(add_erf_type(frame), {isNormalERF}))
        ELSE headers

schema_violation_misspelled_only(r) == Cardinality(r.misspelled) > 0

\* len(misspelled) > 0 or len(missing) > 0
schema_violation(r) ==
    Cardinality(r.misspelled) > 0 \/ Cardinality(r.missing) > 0

progress_rounded(done, total_sheets) == py_round(done * 100, total_sheets)

\* int((i / total_sheets) * 100): the truncated percentage.  The float product
\* is the exact quotient for every total_sheets below 50.
progress(done, total_sheets) == (done * 100) \div total_sheets

Line(text, arg, value) == [text |-> text, arg |-> arg, value |-> value]

Joint == <<"J", "o", "i", "n", "t">>

Joimt == <<"J", "o", "i", "m", "t">>

Depth == <<"D", "e", "p", "t", "h">>

WT == <<"W", "T">>

WX == <<"W", "X">>

Sheet(name, first, second) == [name |-> name, first |-> first, second |-> second]

NoFirst(second) == [k \in 1..Len(second) |-> NaN]

\* worksheets a workbook is made of: pipe tallies that match the reference,
\* have a misspelled, a missing or an extra column; wall-thickness lists that
\* match or have a misspelled column; sheets of no designated kind
SheetPool ==
    { Sheet(PipeTallySheet, <<Joint, NaN, NaN, NaN>>,
            <<NaN, ERF_Modified, ERF_metal_loss, Comments>>),
      Sheet(PipeTallySheet, NoFirst(<<1, 2, 3>>), <<Joimt, ERF_Modified, Comments>>),
      Sheet(PipeTallySheet, NoFirst(<<1, 2>>), <<ERF_metal_loss, Comments>>),
      Sheet(PipeTallySheet, NoFirst(<<1, 2, 3, 4>>),
            <<Joint, ERF_Modified, Depth, Comments>>),
      Sheet(NominalSheet, NoFirst(<<1, 2>>), <<Joint, WT>>),
      Sheet(NominalSheet, NoFirst(<<1, 2>>), <<Joint, WX>>),
      Sheet("Summary", NoFirst(<<1>>), << <<"A">> >>),
      Sheet("Notes", NoFirst(<<1, 2>>), << <<"A">>, <<"A">> >>),
      Sheet("Cover", <<Depth, NaN>>, <<NaN, NaN>>) }

\* a workbook has at least one sheet and no two sheets of one name
Workbooks ==
    {w \in UNION {[1..n -> SheetPool] : n \in 1..MaxSheets} :
        \A a, b \in 1..Len(w) : a # b => w[a].name # w[b].name}

\* header.xlsx with both reference sheets, or with the pipe tally alone
HeaderBooks ==
    { << [name |-> PipeTallySheet, row |-> <<Joint, ERF, Comments>>],
         [name |-> NominalSheet, row |-> <<Joint, WT>>] >>,
      << [name |-> PipeTallySheet, row |-> <<Joint, ERF, Comments>>] >> }

InitRun ==
    /\ IdleHeaders /\ IdleCompare /\ IdleRound /\ IdleErf
    /\ has_argv \in BOOLEAN
    /\ headfile_exists \in BOOLEAN
    /\ excel_exists \in BOOLEAN
    /\ header_book \in HeaderBooks
    /\ xls \in Workbooks
    /\ pipeTallyColumns = <<>>
    /\ nomThickColumns = <<>>
    /\ check_List_Pipe = "unbound"
    /\ check_List_Nominal = "unbound"
    /\ i = 0
    /\ read_sheets = <<>>
    /\ tables = {}
    /\ conn = "none"
    /\ committed = FALSE
    /\ stdout = <<>>
    /\ ret = "none"
    /\ rpc = "main"

\* main(), up to the call of excel_to_sqlite
Main ==
    /\ rpc = "main"
    /\ IF ~has_argv
       THEN /\ stdout' = Append(stdout, Line("Error: No file path provided", "", 0))
            /\ rpc' = "exit"
       ELSE /\ rpc' = "start"
            /\ UNCHANGED stdout
    /\ UNCHANGED <<has_argv, headfile_exists, excel_exists, header_book, xls,
                   pipeTallyColumns, nomThickColumns, check_List_Pipe,
                   check_List_Nominal, i, read_sheets, tables, conn, committed, ret>>
    /\ UNCHANGED <<hvars, cvars, xvars, evars>>

\* excel_to_sqlite: "Get Column Header"
ReadHeaderFile ==
    /\ rpc = "start"
    /\ IF ~headfile_exists
       THEN /\ stdout' = Append(stdout, Line("Error: The file does not exist.", "headfile", 0))
            /\ ret' = "False"
            /\ rpc' = "returned"
            /\ UNCHANGED <<pipeTallyColumns, nomThickColumns>>
       ELSE /\ pipeTallyColumns' = header_columns(header_book, PipeTallySheet)
            /\ nomThickColumns' = header_columns(header_book, NominalSheet)
            /\ rpc' = "open"
            /\ UNCHANGED <<stdout, ret>>
    /\ UNCHANGED <<has_argv, headfile_exists, excel_exists, header_book, xls,
                   check_List_Pipe, check_List_Nominal, i, read_sheets, tables,
                   conn, committed>>
    /\ UNCHANGED <<hvars, cvars, xvars, evars>>

\* excel_to_sqlite: the input file check, sqlite3.connect and pd.ExcelFile
OpenWorkbook ==
    /\ rpc = "open"
    /\ IF ~excel_exists
       THEN /\ stdout' = Append(stdout, Line("Error: The file does not exist.", "excel_file", 0))
            /\ ret' = "False"
            /\ rpc' = "returned"
            /\ UNCHANGED conn
       ELSE /\ conn' = "open"
            /\ rpc' = "loop"
            /\ UNCHANGED <<stdout, ret>>
    /\ UNCHANGED <<has_argv, headfile_exists, excel_exists, header_book, xls,
                   pipeTallyColumns, nomThickColumns, check_List_Pipe,
                   check_List_Nominal, i, read_sheets, tables, committed>>
    /\ UNCHANGED <<hvars, cvars, xvars, evars>>

\* one pass of the loop over xls.sheet_names
ProcessSheet ==
    /\ rpc = "loop"
    /\ i < Len(xls)
    /\ LET sheet == xls[i + 1]
           total_sheets == Len(xls)
           designated == sheet.name \in {PipeTallySheet, NominalSheet}
           cols == sheet_columns(sheet)
           r == compare_arrays_with_alert(
                    IF sheet.name = PipeTallySheet THEN pipeTallyColumns
                    ELSE nomThickColumns, cols)
           warned == designated /\ r.message # "OK" /\ Cardinality(r.true_extra) > 0
           written == designated /\ (r.message = "OK" \/ Cardinality(r.true_extra) > 0)
       IN  /\ read_sheets' = Append(read_sheets, sheet.name)
           /\ check_List_Pipe' =
                 IF sheet.name = PipeTallySheet THEN "True" ELSE check_List_Pipe
           /\ IF designated /\ r.message # "OK" /\ schema_violation(r)
              THEN /\ stdout' = stdout \o
                        << Line("Error: The sheet", sheet.name, 0),
                           Line("Misspelled columns:", sheet.name, 0),
                           Line("Missing columns:", sheet.name, 0) >>
                   /\ ret' = "False"
                   /\ rpc' = "returned"
                   /\ check_List_Nominal' = check_List_Nominal
                   /\ UNCHANGED <<i, tables>>
              ELSE /\ check_List_Nominal' =
                         IF sheet.name = NominalSheet THEN "True" ELSE check_List_Nominal
                   /\ tables' =
                         IF written
                         THEN {t \in tables : t.name # sheet.name}
                                 \cup {[name |-> sheet.name, columns |-> cols]}
                         ELSE tables
                   /\ stdout' = stdout
                         \o (IF warned
                             THEN << Line("Warning: The sheet", sheet.name, 0),
                                     Line("Extra columns :", sheet.name, 0) >>
                             ELSE <<>>)
                         \o << Line("PROGRESS", sheet.name, progress(i + 1, total_sheets)) >>
                   /\ i' = i + 1
                   /\ rpc' = IF i + 1 = total_sheets THEN "after_loop" ELSE "loop"
                   /\ UNCHANGED ret
    /\ UNCHANGED <<has_argv, headfile_exists, excel_exists, header_book, xls,
                   pipeTallyColumns, nomThickColumns, conn, committed>>
    /\ UNCHANGED <<hvars, cvars, xvars, evars>>

\* excel_to_sqlite after the loop: the two missing-sheet checks, commit, close
\* and return True.  The two flags have no assignment before the loop (the
\* initialisations are commented out), so reading one that no sheet assigned
\* raises UnboundLocalError.
FinishRun ==
    /\ rpc = "after_loop"
    /\ IF check_List_Pipe = "unbound" \/ check_List_Nominal = "unbound"
       THEN /\ rpc' = "raised"
            /\ UNCHANGED <<stdout, conn, committed, ret>>
       ELSE /\ stdout' = stdout
                \o (IF check_List_Pipe = "False"
                    THEN <<Line("Error: The sheet is missing", PipeTallySheet, 0)>>
                    ELSE <<>>)
                \o (IF check_List_Nominal = "False"
                    THEN <<Line("Error: The sheet is missing", NominalSheet, 0)>>
                    ELSE <<>>)
            /\ committed' = TRUE
            /\ conn' = "closed"
            /\ ret' = "True"
            /\ rpc' = "returned"
    /\ UNCHANGED <<has_argv, headfile_exists, excel_exists, header_book, xls,
                   pipeTallyColumns, nomThickColumns, check_List_Pipe,
                   check_List_Nominal, i, read_sheets, tables>>
    /\ UNCHANGED <<hvars, cvars, xvars, evars>>

\* main(), after excel_to_sqlite returned
MainReturn ==
    /\ rpc = "returned"
    /\ stdout' = IF ret = "True"
                 THEN Append(stdout, Line("Msg: Conversion completed successfully.", "", 0))
                 ELSE stdout
    /\ rpc' = "exit"
    /\ UNCHANGED <<has_argv, headfile_exists, excel_exists, header_book, xls,
                   pipeTallyColumns, nomThickColumns, check_List_Pipe,
                   check_List_Nominal, i, read_sheets, tables, conn, committed, ret>>
    /\ UNCHANGED <<hvars, cvars, xvars, evars>>

NextRun ==
    \/ Main
    \/ ReadHeaderFile
    \/ OpenWorkbook
    \/ ProcessSheet
    \/ FinishRun
    \/ MainReturn

SpecRun == InitRun /\ [][NextRun]_vars

\* the reference columns a designated sheet is reconciled against
ReferenceOf(sheet) ==
    IF sheet.name = PipeTallySheet THEN pipeTallyColumns ELSE nomThickColumns

\* a designated sheet whose reconciliation has a misspelled or a missing name
SchemaViolation(sheet) ==
    /\ sheet.name \in {PipeTallySheet, NominalSheet}
    /\ LET ref == Range(ReferenceOf(sheet))
           cand == Range(sheet_columns(sheet))
       IN  \/ \E n \in cand \ ref : \E r \in ref : NearMatch(n, r)
           \/ \E r \in ref \ cand : \A n \in cand : ~NearMatch(r, n)

\* the values of the PROGRESS lines printed so far, in order
ProgressValues ==
    LET lines == SelectSeq(stdout, LAMBDA l : l.text = "PROGRESS")
    IN  [k \in 1..Len(lines) |-> lines[k].value]

\* C3: sheets are read in workbook order, and once a designated sheet with a
\* misspelled or missing column has been read the run has returned False at
\* that sheet: it is the last sheet read, it has no table, every table is of
\* an earlier sheet, and the progress lines are those of the earlier sheets.
C3_FailFast ==
    /\ Len(read_sheets) <= Len(xls)
    /\ \A k \in 1..Len(read_sheets) : read_sheets[k] = xls[k].name
    /\ \A k \in 1..Len(read_sheets) :
          SchemaViolation(xls[k]) =>
              /\ ret = "False"
              /\ rpc \in {"returned", "exit"}
              /\ Len(read_sheets) = k
              /\ i = k - 1
              /\ \A t \in tables : \E j \in 1..(k - 1) : t.name = xls[j].name
              /\ Len(ProgressValues) = k - 1

\* the run failed at its third sheet after writing the table of an earlier one
C3_Witness ==
    /\ rpc = "exit"
    /\ ret = "False"
    /\ Len(read_sheets) = 3
    /\ SchemaViolation(xls[3])
    /\ tables # {}
    /\ Len(ProgressValues) = 2

\* the workbook was opened and no sheet of it is a SchemaViolation
RunsWithoutViolation ==
    /\ rpc \in {"loop", "after_loop", "raised", "returned", "exit"}
    /\ conn # "none"
    /\ \A k \in 1..Len(xls) : ~SchemaViolation(xls[k])

Lacks(name) == \A k \in 1..Len(xls) : xls[k].name # name

\* C4: a workbook that lacks a designated sheet, and has no SchemaViolation,
\* is converted to the end: the run does not stop abnormally, and when it has
\* ended it has printed the missing-sheet message of each absent sheet,
\* committed and closed the store and returned True.
C4_MissingSheetIsAdvisory ==
    (RunsWithoutViolation /\ (Lacks(PipeTallySheet) \/ Lacks(NominalSheet))) =>
        /\ rpc # "raised"
        /\ rpc = "exit" =>
              /\ ret = "True"
              /\ committed
              /\ conn = "closed"
              /\ \A name \in {PipeTallySheet, NominalSheet} :
                    Lacks(name) =>
                        InSeq(Line("Error: The sheet is missing", name, 0), stdout)

\* C9 as stated: one value per sheet, non-decreasing, ending at 100, the
\* value after the k-th of N sheets being 100 * k / N rounded to the nearest
\* integer.
C9_RoundedPercentage ==
    LET N == Len(xls)
        p == ProgressValues
    IN  /\ Len(p) = i
        /\ \A k \in 1..Len(p) : 2 * Abs(p[k] * N - 100 * k) <= N
        /\ \A k \in 1..(Len(p) - 1) : p[k] <= p[k + 1]
        /\ rpc \in {"after_loop", "raised"} \/ ret = "True" =>
              Len(p) = N /\ p[N] = 100

\* C9 amended: the value after the k-th of N sheets is 100 * k / N truncated
\* to an integer (the largest p with p * N <= 100 * k); one value per sheet,
\* non-decreasing, ending at 100.
C9_TruncatedPercentage ==
    LET N == Len(xls)
        p == ProgressValues
    IN  /\ Len(p) = i
        /\ \A k \in 1..Len(p) : p[k] * N <= 100 * k /\ 100 * k < (p[k] + 1) * N
        /\ \A k \in 1..(Len(p) - 1) : p[k] <= p[k + 1]
        /\ rpc \in {"after_loop", "raised"} \/ ret = "True" =>
              Len(p) = N /\ p[N] = 100

\* a run over three sheets that returned True, having printed 33, 66 and 100
C9_Witness ==
    /\ ret = "True"
    /\ Len(xls) = 3
    /\ ProgressValues = <<33, 66, 100>>

====
